---- MODULE Spec2Model ----
(***************************************************************************)
(* A model of the byte-pair-encoding tokenizer of src/_mybpe/src/lib.rs:   *)
(* the chunker (the GPT-4 split pattern restricted to ASCII), merge_pair,  *)
(* find_lowest_token_merge_in_chunk, train, encode and                     *)
(* get_mergeable_ranks.  A Tokenizer is used by one caller at a time, so   *)
(* the calls are interleaved only at their boundaries (pc = "idle"); the   *)
(* loops of train and encode advance one iteration per step.  A call that  *)
(* ends leaves its result and its last locals in view (pc = "returned")    *)
(* until the caller goes on, which drops them.                             *)
(*                                                                         *)
(* Sequences are 1-based here and 0-based in the source: position k of a   *)
(* Vec is element k+1 of the sequence that models it.                      *)
(***************************************************************************)
EXTENDS Integers, Sequences, FiniteSets, TLC

\* ---------------------------------------------------------------- bounds
MaxLen == 4       \* longest enumerated input text, in characters
MaxCalls == 2     \* number of train calls in one behaviour
MaxVocab == 258   \* largest vocab_size passed to train
MaxTokens == 4    \* longest symbol sequence passed to merge_pair on its own

\* The characters of the enumerated texts: space and 'a'.
Alphabet == {32, 97}

\* "aaabdaaabac", the worked example of the specification.
ExampleText == <<97, 97, 97, 98, 100, 97, 97, 97, 98, 97, 99>>

Texts == UNION {[1..n -> Alphabet] : n \in 0..MaxLen} \cup {ExampleText}

VocabSizes == {0, 256} \cup (257..MaxVocab)

\* ------------------------------------------------------- program constants
\* let mut current_token = 256;
FirstMergeId == 256

\* for i in 0..256 { mergeable_ranks.push((vec![i as u8], i)); }
NumBytes == 256

\* ------------------------------------------------------------ the chunker
\* Character classes of GPT4_PATTERN over ASCII: \p{L}, \p{N}, \s, [\r\n].
Letter == (65..90) \cup (97..122)
Digit == 48..57
Space == (9..13) \cup {32}
Newline == {10, 13}
Punct == (0..127) \ (Space \cup Letter \cup Digit)

\* (?i: ...) folds the case of the ASCII letters.
Lower(c) == IF c \in 65..90 THEN c + 32 ELSE c

Min2(a, b) == IF a < b THEN a ELSE b

\* The length of the longest run of characters of S that starts at t[i].
RECURSIVE RunLen(_, _, _)
RunLen(t, i, S) ==
    IF i <= Len(t) /\ t[i] \in S THEN 1 + RunLen(t, i + 1, S) ELSE 0

\* \s*[\r\n] over a whitespace run of length s at t[i]: the longest prefix
\* of the run that ends in a newline (0 when the run has no newline).
RECURSIVE LastNewline(_, _, _)
LastNewline(t, i, s) ==
    IF s = 0 THEN 0
    ELSE IF t[i + s - 1] \in Newline THEN s
    ELSE LastNewline(t, i, s - 1)

\* The length of the match of GPT4_PATTERN at position i of t: the first
\* alternative that matches, tried in the order of the pattern.
MatchLen(t, i) ==
    LET n == Len(t)
        c == t[i]
        \* '(?i:[sdmt]|ll|ve|re)
        alt1 == IF c = 39 /\ i + 1 <= n
                THEN IF Lower(t[i + 1]) \in {115, 100, 109, 116} THEN 2
                     ELSE IF i + 2 <= n
                             /\ <<Lower(t[i + 1]), Lower(t[i + 2])>>
                                  \in {<<108, 108>>, <<118, 101>>, <<114, 101>>}
                          THEN 3 ELSE 0
                ELSE 0
        \* [^\r\n\p{L}\p{N}]?+\p{L}+
        pre2 == IF c \notin (Newline \cup Letter \cup Digit) THEN 1 ELSE 0
        run2 == RunLen(t, i + pre2, Letter)
        alt2 == IF run2 >= 1 THEN pre2 + run2 ELSE 0
        \* \p{N}{1,3}
        alt3 == Min2(RunLen(t, i, Digit), 3)
        \* ' ?[^\s\p{L}\p{N}]++[\r\n]*'
        pre4 == IF c = 32 THEN 1 ELSE 0
        run4 == RunLen(t, i + pre4, Punct)
        alt4 == IF run4 >= 1
                THEN pre4 + run4 + RunLen(t, i + pre4 + run4, Newline)
                ELSE 0
        s == RunLen(t, i, Space)
        \* \s*[\r\n]
        alt5 == LastNewline(t, i, s)
        \* \s+(?!\S)
        alt6 == IF s >= 1 /\ i + s = n + 1 THEN s
                ELSE IF s >= 2 THEN s - 1 ELSE 0
        \* \s+
        alt7 == s
    IN  IF alt1 > 0 THEN alt1
        ELSE IF alt2 > 0 THEN alt2
        ELSE IF alt3 > 0 THEN alt3
        ELSE IF alt4 > 0 THEN alt4
        ELSE IF alt5 > 0 THEN alt5
        ELSE IF alt6 > 0 THEN alt6
        ELSE alt7

\* compiled_pattern.find_iter(text): the successive non-overlapping matches
\* from position i on; a position where nothing matches is skipped.
RECURSIVE FindFrom(_, _)
FindFrom(t, i) ==
    IF i > Len(t) THEN <<>>
    ELSE LET n == MatchLen(t, i)
         IN  IF n = 0 THEN FindFrom(t, i + 1)
             ELSE <<SubSeq(t, i, i + n - 1)>> \o FindFrom(t, i + n)

find_iter(t) == FindFrom(t, 1)

\* chunk.bytes().map(|b| b as u32): the UTF-8 bytes of a chunk, widened.
\* An ASCII character is the one byte of its own value.
bytes(chunk) == [k \in 1..Len(chunk) |-> chunk[k] % 256]

\* The whole text as one symbol stream (no chunking).
unchunked_streams(t) == IF Len(t) = 0 THEN <<>> ELSE <<bytes(t)>>

\* The chunk_tokens_list that train and encode build from their text.
symbol_streams(t) ==
    LET cs == find_iter(t) IN [k \in 1..Len(cs) |-> bytes(cs[k])]

\* ---------------------------------------------------------- the merge table
\* A StdHashMap<Pair, TokenId> is a function whose domain is its key set.
EmptyMerges == [p \in {} |-> 0]

\* HashMap::insert: adds the key or overwrites its value.
Insert(m, p, id) ==
    [q \in (DOMAIN m) \cup {p} |-> IF q = p THEN id ELSE m[q]]

\* ------------------------------------------------------------- merge_pair
RECURSIVE MergeFrom(_, _, _, _)
MergeFrom(toks, i, pair, new_id) ==
    IF i > Len(toks) THEN <<>>
    ELSE IF i + 1 <= Len(toks) /\ toks[i] = pair[1] /\ toks[i + 1] = pair[2]
         THEN <<new_id>> \o MergeFrom(toks, i + 2, pair, new_id)
         ELSE <<toks[i]>> \o MergeFrom(toks, i + 1, pair, new_id)

\* The scan when it advances by one symbol after a replacement, so that
\* occurrences may overlap.
RECURSIVE MergeFromByOne(_, _, _, _)
MergeFromByOne(toks, i, pair, new_id) ==
    IF i > Len(toks) THEN <<>>
    ELSE IF i + 1 <= Len(toks) /\ toks[i] = pair[1] /\ toks[i + 1] = pair[2]
         THEN <<new_id>> \o MergeFromByOne(toks, i + 1, pair, new_id)
         ELSE <<toks[i]>> \o MergeFromByOne(toks, i + 1, pair, new_id)

merge_pair_overlapping(toks, pair, new_id) == MergeFromByOne(toks, 1, pair, new_id)

\* The scan when it stops replacing after the first occurrence.
RECURSIVE MergeFirstFrom(_, _, _, _)
MergeFirstFrom(toks, i, pair, new_id) ==
    IF i > Len(toks) THEN <<>>
    ELSE IF i + 1 <= Len(toks) /\ toks[i] = pair[1] /\ toks[i + 1] = pair[2]
         THEN <<new_id>> \o SubSeq(toks, i + 2, Len(toks))
         ELSE <<toks[i]>> \o MergeFirstFrom(toks, i + 1, pair, new_id)

merge_pair_first_only(toks, pair, new_id) == MergeFirstFrom(toks, 1, pair, new_id)

merge_pair(toks, pair, new_id) == MergeFrom(toks, 1, pair, new_id)

\* ------------------------------------- find_lowest_token_merge_in_chunk
\* Option<(Pair, TokenId)>: None is <<>>, Some((pair, id)) is <<pair, id>>.
None == <<>>

RECURSIVE LowestFrom(_, _, _, _)
LowestFrom(m, chunk, k, best) ==
    IF k + 1 > Len(chunk) THEN best
    ELSE LET pair == <<chunk[k], chunk[k + 1]>>
         IN  IF pair \in DOMAIN m /\ (best = None \/ m[pair] < best[2])
             THEN LowestFrom(m, chunk, k + 1, <<pair, m[pair]>>)
             ELSE LowestFrom(m, chunk, k + 1, best)

\* The same scan without the comparison of ids: the first known pair wins.
RECURSIVE FirstFrom(_, _, _)
FirstFrom(m, chunk, k) ==
    IF k + 1 > Len(chunk) THEN None
    ELSE LET pair == <<chunk[k], chunk[k + 1]>>
         IN  IF pair \in DOMAIN m THEN <<pair, m[pair]>>
             ELSE FirstFrom(m, chunk, k + 1)

find_first_token_merge_in_chunk(m, chunk_tokens) ==
    FirstFrom(m, chunk_tokens, 1)

find_lowest_token_merge_in_chunk(m, chunk_tokens) ==
    LowestFrom(m, chunk_tokens, 1, None)

\* ------------------------------------------------------ encode, as a function
\* The loop of encode over one chunk (lines 128-135).
RECURSIVE encode_chunk(_, _)
encode_chunk(m, chunk_tokens) ==
    LET found == find_lowest_token_merge_in_chunk(m, chunk_tokens)
    IN  IF found = None THEN chunk_tokens
        ELSE encode_chunk(m, merge_pair(chunk_tokens, found[1], found[2]))

\* tokens.extend(chunk_tokens) for every chunk, in order.
RECURSIVE Flatten(_)
Flatten(list) ==
    IF Len(list) = 0 THEN <<>> ELSE Head(list) \o Flatten(Tail(list))

\* encode when each chunk gets one round of the merge loop only.
encode_one_round(m, t) ==
    LET streams == symbol_streams(t)
        round(c) == LET found == find_lowest_token_merge_in_chunk(m, c)
                    IN  IF found = None THEN c ELSE merge_pair(c, found[1], found[2])
    IN  Flatten([k \in 1..Len(streams) |-> round(streams[k])])

\* encode(text) of a tokenizer whose merge table is m.
encode(m, t) ==
    LET cs == find_iter(t)
    IN  Flatten([k \in 1..Len(cs) |-> encode_chunk(m, bytes(cs[k]))])

\* ------------------------------------------------- train's pair counting
\* *token_count.entry(token_pair).or_insert(0) += 1
Incr(tc, p) ==
    [q \in (DOMAIN tc) \cup {p} |->
        IF q = p THEN (IF p \in DOMAIN tc THEN tc[p] ELSE 0) + 1 ELSE tc[q]]

RECURSIVE CountChunk(_, _, _)
CountChunk(tc, chunk, k) ==
    IF k + 1 > Len(chunk) THEN tc
    ELSE CountChunk(Incr(tc, <<chunk[k], chunk[k + 1]>>), chunk, k + 1)

RECURSIVE CountList(_, _, _)
CountList(tc, list, j) ==
    IF j > Len(list) THEN tc
    ELSE CountList(CountChunk(tc, list[j], 1), list, j + 1)

\* The pair counts of the concatenation of all chunks.
count_pairs_flat(list) == CountChunk(EmptyMerges, Flatten(list), 1)

\* token_count after the counting loop (lines 93-100).
count_pairs(list) == CountList(EmptyMerges, list, 1)

\* The pairs of least count.
min_by_key(tc) == {p \in DOMAIN tc : \A q \in DOMAIN tc : tc[p] <= tc[q]}

\* token_count.iter().max_by_key(|&(_, count)| count): the last maximum in
\* the iteration order of the HashMap, which is arbitrary; any pair of
\* maximum count can be the one returned.
max_by_key(tc) == {p \in DOMAIN tc : \A q \in DOMAIN tc : tc[q] <= tc[p]}

\* ---------------------------------------------------- get_mergeable_ranks
\* The base entries when the loop stops one byte early (0..255).
BaseRanksShort == [b \in 1..(NumBytes - 1) |-> <<<<b - 1>>, b - 1>>]

\* The first 256 entries: (vec![i as u8], i).
BaseRanks == [b \in 1..NumBytes |-> <<<<b - 1>>, b - 1>>]

\* sorted_merges: self.merges.iter().collect() then a stable sort by id.
\* Entries of equal id keep the HashMap's arbitrary iteration order, so any
\* arrangement of all entries with non-decreasing ids is possible.
RECURSIVE SortedOrders(_, _)
SortedOrders(m, S) ==
    IF S = {} THEN {<<>>}
    ELSE LET lowest == {p \in S : \A q \in S : m[p] <= m[q]}
         IN  UNION {{<<<<p, m[p]>>>> \o rest : rest \in SortedOrders(m, S \ {p})}
                    : p \in lowest}

\* The collected entries when the sort is left out: any arrangement.
RECURSIVE AllOrders(_, _)
AllOrders(m, S) ==
    IF S = {} THEN {<<>>}
    ELSE UNION {{<<<<p, m[p]>>>> \o rest : rest \in AllOrders(m, S \ {p})} : p \in S}

unsorted_merges(m) == AllOrders(m, DOMAIN m)

sorted_merges(m) == SortedOrders(m, DOMAIN m)

\* The loop when it concatenates the right component's bytes first.
RECURSIVE BuildRanksSwapped(_, _, _)
BuildRanksSwapped(acc, order, k) ==
    IF k > Len(order) THEN [ok |-> TRUE, ranks |-> acc]
    ELSE LET left == order[k][1][1]
             right == order[k][1][2]
         IN  IF left + 1 > Len(acc) \/ right + 1 > Len(acc)
             THEN [ok |-> FALSE, ranks |-> <<>>]
             ELSE BuildRanksSwapped(Append(acc, <<acc[right + 1][1] \o acc[left + 1][1],
                                                  order[k][2]>>),
                                    order, k + 1)

\* The loop of lines 159-163; indexing past the end of the Vec panics.
RECURSIVE BuildRanks(_, _, _)
BuildRanks(acc, order, k) ==
    IF k > Len(order) THEN [ok |-> TRUE, ranks |-> acc]
    ELSE LET left == order[k][1][1]
             right == order[k][1][2]
         IN  IF left + 1 > Len(acc) \/ right + 1 > Len(acc)
             THEN [ok |-> FALSE, ranks |-> <<>>]
             ELSE BuildRanks(Append(acc, <<acc[left + 1][1] \o acc[right + 1][1],
                                           order[k][2]>>),
                             order, k + 1)

\* ------------------------------------------------------------------ state
VARIABLES
    merges,             \* Tokenizer.merges
    pc,                 \* "idle", "train", "encode" (in the loop), "returned"
    text,               \* the text argument of the current or last call
    vocab_size,         \* train's vocab_size argument
    chunk_tokens_list,  \* the local of train and of encode
    current_token,      \* train's local
    token_count,        \* train's local, as counted by the last iteration
    i,                  \* encode's loop index (1-based)
    tokens,             \* encode's result
    mergeable_ranks,    \* get_mergeable_ranks' result
    panicked,           \* the last call ended in a panic
    returned,           \* the call that returned last
    calls,              \* number of train calls so far
    merges_at_call,     \* history: merges when the current call began
    assigned,           \* history: the (pair, id) inserted by this train call
    applied             \* history: the (pair, id) applied to encode's chunk i

vars == <<merges, pc, text, vocab_size, chunk_tokens_list, current_token,
          token_count, i, tokens, mergeable_ranks, panicked, returned, calls,
          merges_at_call, assigned, applied>>

\* Tokenizer::new()
Init ==
    /\ merges = EmptyMerges
    /\ pc = "idle"
    /\ text = <<>>
    /\ vocab_size = 0
    /\ chunk_tokens_list = <<>>
    /\ current_token = FirstMergeId
    /\ token_count = EmptyMerges
    /\ i = 1
    /\ tokens = <<>>
    /\ mergeable_ranks = <<>>
    /\ panicked = FALSE
    /\ returned = "none"
    /\ calls = 0
    /\ merges_at_call = EmptyMerges
    /\ assigned = <<>>
    /\ applied = <<>>

\* ------------------------------------------------------------------ train
\* Lines 83-91: the chunks' symbol streams and the first id to assign.
TrainBegin(t, v) ==
    /\ pc = "idle"
    /\ calls < MaxCalls
    /\ pc' = "train"
    /\ text' = t
    /\ vocab_size' = v
    /\ chunk_tokens_list' = symbol_streams(t)
    /\ current_token' = FirstMergeId
    /\ calls' = calls + 1
    /\ merges_at_call' = merges
    /\ assigned' = <<>>
    /\ UNCHANGED <<merges, token_count, i, tokens, mergeable_ranks, panicked,
                   returned, applied>>

\* A loop bound that lets the loop run once more.
train_loop_cond_le == current_token <= vocab_size

\* while current_token < vocab_size
train_loop_cond == current_token < vocab_size

\* One iteration that finds a pair (lines 93-108).
TrainMerge ==
    /\ pc = "train"
    /\ train_loop_cond
    /\ LET tc == count_pairs(chunk_tokens_list)
       IN  /\ DOMAIN tc # {}
           /\ \E max_pair \in max_by_key(tc) :
                /\ merges' = Insert(merges, max_pair, current_token)
                /\ chunk_tokens_list' =
                     [k \in 1..Len(chunk_tokens_list) |->
                        merge_pair(chunk_tokens_list[k], max_pair, current_token)]
                /\ assigned' = Append(assigned, <<max_pair, current_token>>)
           /\ token_count' = tc
    /\ current_token' = current_token + 1
    /\ UNCHANGED <<pc, text, vocab_size, i, tokens, mergeable_ranks, panicked,
                   returned, calls, merges_at_call, applied>>

\* The iteration that finds no pair: break (lines 109-112).
TrainBreak ==
    /\ pc = "train"
    /\ train_loop_cond
    /\ DOMAIN count_pairs(chunk_tokens_list) = {}
    /\ token_count' = EmptyMerges
    /\ pc' = "returned"
    /\ returned' = "train"
    /\ UNCHANGED <<merges, text, vocab_size, chunk_tokens_list, current_token,
                   i, tokens, mergeable_ranks, panicked, calls, merges_at_call,
                   assigned, applied>>

\* The loop condition fails: train returns.
TrainReturn ==
    /\ pc = "train"
    /\ ~train_loop_cond
    /\ pc' = "returned"
    /\ returned' = "train"
    /\ UNCHANGED <<merges, text, vocab_size, chunk_tokens_list, current_token,
                   token_count, i, tokens, mergeable_ranks, panicked, calls,
                   merges_at_call, assigned, applied>>

\* ----------------------------------------------------------------- encode
\* The beginning of encode when it takes the first chunk before it looks at
\* the length of the list: indexing the empty list of an empty text panics.
EncodeBeginFirstChunk(t) ==
    /\ pc = "idle"
    /\ text' = t
    /\ chunk_tokens_list' = symbol_streams(t)
    /\ i' = 1
    /\ tokens' = <<>>
    /\ merges_at_call' = merges
    /\ applied' = <<>>
    /\ IF Len(symbol_streams(t)) = 0
       THEN pc' = "returned" /\ returned' = "encode" /\ panicked' = TRUE
       ELSE pc' = "encode" /\ UNCHANGED <<returned, panicked>>
    /\ UNCHANGED <<merges, vocab_size, current_token, token_count,
                   mergeable_ranks, calls, assigned>>

\* Lines 117-125.
EncodeBegin(t) ==
    /\ pc = "idle"
    /\ pc' = "encode"
    /\ text' = t
    /\ chunk_tokens_list' = symbol_streams(t)
    /\ i' = 1
    /\ tokens' = <<>>
    /\ merges_at_call' = merges
    /\ applied' = <<>>
    /\ UNCHANGED <<merges, vocab_size, current_token, token_count,
                   mergeable_ranks, panicked, returned, calls, assigned>>

\* The same iteration when the merge of lowest id is looked up in an order
\* that does not follow the chunk: among the known pairs present that share
\* the lowest id, any one may be applied.
EncodeMergeAnyTie ==
    /\ pc = "encode"
    /\ i <= Len(chunk_tokens_list)
    /\ LET chunk == chunk_tokens_list[i]
           known == {<<chunk[k], chunk[k + 1]>> : k \in 1..(Len(chunk) - 1)}
                       \cap DOMAIN merges
       IN  \E pair \in known :
              /\ \A q \in known : merges[pair] <= merges[q]
              /\ chunk_tokens_list' =
                   [chunk_tokens_list EXCEPT
                      ![i] = merge_pair(chunk, pair, merges[pair])]
              /\ applied' = Append(applied, <<pair, merges[pair]>>)
    /\ UNCHANGED <<merges, pc, text, vocab_size, current_token, token_count, i,
                   tokens, mergeable_ranks, panicked, returned, calls,
                   merges_at_call, assigned>>

\* One iteration of the inner loop that finds a merge (lines 129-131).
EncodeMerge ==
    /\ pc = "encode"
    /\ i <= Len(chunk_tokens_list)
    /\ LET found == find_lowest_token_merge_in_chunk(merges, chunk_tokens_list[i])
       IN  /\ found # None
           /\ chunk_tokens_list' =
                [chunk_tokens_list EXCEPT
                   ![i] = merge_pair(chunk_tokens_list[i], found[1], found[2])]
           /\ applied' = Append(applied, found)
    /\ UNCHANGED <<merges, pc, text, vocab_size, current_token, token_count, i,
                   tokens, mergeable_ranks, panicked, returned, calls,
                   merges_at_call, assigned>>

\* The inner loop finds nothing: break, on to the next chunk (lines 132-134).
EncodeBreak ==
    /\ pc = "encode"
    /\ i <= Len(chunk_tokens_list)
    /\ find_lowest_token_merge_in_chunk(merges, chunk_tokens_list[i]) = None
    /\ i' = i + 1
    /\ applied' = <<>>
    /\ UNCHANGED <<merges, pc, text, vocab_size, chunk_tokens_list,
                   current_token, token_count, tokens, mergeable_ranks,
                   panicked, returned, calls, merges_at_call, assigned>>

\* Lines 138-142.  chunk_tokens_list keeps the value the final loop consumes.
EncodeReturn ==
    /\ pc = "encode"
    /\ i > Len(chunk_tokens_list)
    /\ tokens' = Flatten(chunk_tokens_list)
    /\ pc' = "returned"
    /\ returned' = "encode"
    /\ UNCHANGED <<merges, text, vocab_size, chunk_tokens_list, current_token,
                   token_count, i, mergeable_ranks, panicked, calls,
                   merges_at_call, assigned, applied>>

\* ---------------------------------------------------- get_mergeable_ranks
GetMergeableRanks ==
    /\ pc = "idle"
    /\ \E order \in sorted_merges(merges) :
         LET built == BuildRanks(BaseRanks, order, 1)
         IN  /\ mergeable_ranks' = built.ranks
             /\ panicked' = ~built.ok
    /\ pc' = "returned"
    /\ returned' = "ranks"
    /\ merges_at_call' = merges
    /\ UNCHANGED <<merges, text, vocab_size, chunk_tokens_list, current_token,
                   token_count, i, tokens, calls, assigned, applied>>

\* ------------------------------------------------------------ the caller
\* The caller takes the result and goes on: the locals and the returned
\* value of the call that ended are gone, the Tokenizer stays.
CallerResumes ==
    /\ pc = "returned"
    /\ pc' = "idle"
    /\ text' = <<>>
    /\ vocab_size' = 0
    /\ chunk_tokens_list' = <<>>
    /\ current_token' = FirstMergeId
    /\ token_count' = EmptyMerges
    /\ i' = 1
    /\ tokens' = <<>>
    /\ mergeable_ranks' = <<>>
    /\ panicked' = FALSE
    /\ returned' = "none"
    /\ merges_at_call' = merges
    /\ assigned' = <<>>
    /\ applied' = <<>>
    /\ UNCHANGED <<merges, calls>>

Next ==
    \/ \E t \in Texts, v \in VocabSizes : TrainBegin(t, v)
    \/ TrainMerge
    \/ TrainBreak
    \/ TrainReturn
    \/ \E t \in Texts : EncodeBegin(t)
    \/ EncodeMerge
    \/ EncodeBreak
    \/ EncodeReturn
    \/ GetMergeableRanks
    \/ CallerResumes

Spec == Init /\ [][Next]_vars

\* ---------------------------------------------------------------------
\* Sequences of train calls only, over texts one character longer and
\* vocabulary sizes one larger than those of Spec.
\* ---------------------------------------------------------------------
\* "aaa a a a": its three merges are chosen without any tie.
BuildOrderText == <<97, 97, 97, 32, 97, 32, 97, 32, 97>>
TrainTexts == UNION {[1..n -> Alphabet] : n \in 0..(MaxLen + 1)} \cup {BuildOrderText}
TrainVocabSizes == VocabSizes \cup {MaxVocab + 1}

NextTrain ==
    \/ \E t \in TrainTexts, v \in TrainVocabSizes : TrainBegin(t, v)
    \/ TrainMerge
    \/ TrainBreak
    \/ TrainReturn
    \/ CallerResumes

SpecTrain == Init /\ [][NextTrain]_vars

\* ---------------------------------------------------------------------
\* merge_pair on its own: the arguments are drawn from bounded sets and
\* the one action applies the function.
\* ---------------------------------------------------------------------
MergeSymbols == {97, 98, 256}
MergeNewIds == {256, 257}
MergeInputs == UNION {[1..n -> MergeSymbols] : n \in 0..MaxTokens}

\* The arguments chunk_tokens, pair and new_id of the call.
arg_tokens == chunk_tokens_list[1]
arg_pair == assigned[1][1]
arg_new_id == assigned[1][2]

InitMergePair ==
    /\ merges = EmptyMerges
    /\ pc = "idle"
    /\ text = <<>>
    /\ vocab_size = 0
    /\ chunk_tokens_list \in {<<toks>> : toks \in MergeInputs}
    /\ current_token = FirstMergeId
    /\ token_count = EmptyMerges
    /\ i = 1
    /\ tokens = <<>>
    /\ mergeable_ranks = <<>>
    /\ panicked = FALSE
    /\ returned = "none"
    /\ calls = 0
    /\ merges_at_call = EmptyMerges
    /\ assigned \in {<<<<pair, new_id>>>> :
                        pair \in MergeSymbols \X MergeSymbols, new_id \in MergeNewIds}
    /\ applied = <<>>

\* Lines 19-32: the call returns the merged sequence.
MergePairCall ==
    /\ pc = "idle"
    /\ tokens' = merge_pair(arg_tokens, arg_pair, arg_new_id)
    /\ pc' = "returned"
    /\ returned' = "merge_pair"
    /\ UNCHANGED <<merges, text, vocab_size, chunk_tokens_list, current_token,
                   token_count, i, mergeable_ranks, panicked, calls,
                   merges_at_call, assigned, applied>>

NextMergePair == MergePairCall

SpecMergePair == InitMergePair /\ [][NextMergePair]_vars

\* ================================================================ claims
Keys(m) == DOMAIN m
Values(m) == {m[p] : p \in DOMAIN m}

\* A train call has returned and the tokenizer is between calls.
AfterTrain == pc = "returned" /\ returned = "train"

\* C1: after any sequence of train calls on a tokenizer created empty, the
\* values of the merge table are exactly {256, ..., 255+k}, k the number of
\* entries: no gap, and no value held by two pairs.
C1_ContiguousIds ==
    AfterTrain =>
        /\ Values(merges) = FirstMergeId..(FirstMergeId + Cardinality(Keys(merges)) - 1)
        /\ \A p, q \in Keys(merges) : merges[p] = merges[q] => p = q

\* C2: a train call on a table that already holds k >= 1 merges, and that
\* learns at least one merge, assigns 256+k as its first id.
C2_IdsContinue ==
    ((pc = "train" \/ AfterTrain)
       /\ Cardinality(Keys(merges_at_call)) >= 1 /\ Len(assigned) >= 1)
    => assigned[1][2] = FirstMergeId + Cardinality(Keys(merges_at_call))

\* C3: a train call never reassigns an existing pair's id: every pair of
\* the table before the call is in the table after it, with the same id.
C3_NoReassign ==
    AfterTrain =>
        \A p \in Keys(merges_at_call) :
            p \in Keys(merges) /\ merges[p] = merges_at_call[p]

\* The adjacent pairs of a symbol sequence.
Windows(chunk) == {<<chunk[k], chunk[k + 1]>> : k \in 1..(Len(chunk) - 1)}

\* The adjacent pairs of a symbol sequence that are keys of the table m.
KnownPairs(m, chunk) == Windows(chunk) \cap Keys(m)

\* C4: every merge that encode applies to a chunk is a known pair present
\* in the chunk whose id is the minimum over the known pairs present, and
\* when encode returns no chunk contains a known pair.
C4_EncodeLowestFixpoint ==
    [][ /\ (pc = "encode" /\ Len(applied') = Len(applied) + 1) =>
            LET chunk == chunk_tokens_list[i]
                step == applied'[Len(applied')]
            IN  /\ step[1] \in KnownPairs(merges, chunk)
                /\ step[2] = merges[step[1]]
                /\ \A q \in KnownPairs(merges, chunk) : step[2] <= merges[q]
                /\ chunk_tokens_list'[i] = merge_pair(chunk, step[1], step[2])
        /\ (pc = "encode" /\ pc' = "returned") =>
            /\ tokens' = Flatten(chunk_tokens_list)
            /\ \A k \in 1..Len(chunk_tokens_list) :
                  KnownPairs(merges, chunk_tokens_list[k]) = {}
      ]_vars

\* C4 witness: encode has applied a first merge to a chunk whose raw bytes
\* held two known pairs of different ids, and it applied the lower one.
C4_Witness ==
    /\ pc = "encode"
    /\ i <= Len(chunk_tokens_list)
    /\ Len(applied) >= 1
    /\ \E q \in KnownPairs(merges, symbol_streams(text)[i]) :
          applied[1][2] < merges[q]

\* C5: the ids of the merges that encode applies to one chunk are strictly
\* increasing.
C5_AppliedIdsIncrease ==
    pc = "encode" =>
        \A k \in 1..(Len(applied) - 1) : applied[k][2] < applied[k + 1][2]

\* C6: get_mergeable_ranks returns the 256 entries ([b], b) followed by one
\* entry per learned merge in increasing id order; the entry of a merge
\* (left, right) -> id holds the bytes of the entry whose id is left followed
\* by the bytes of the entry whose id is right, so that its length is the
\* sum of the lengths of these two.
C6_RanksReplayMerges ==
    (pc = "returned" /\ returned = "ranks") =>
        LET R == mergeable_ranks
            n == Len(R)
        IN  /\ ~panicked
            /\ n = NumBytes + Cardinality(Keys(merges))
            /\ \A b \in 0..(NumBytes - 1) : R[b + 1] = <<<<b>>, b>>
            /\ \A k \in (NumBytes + 1)..(n - 1) : R[k][2] < R[k + 1][2]
            /\ \A p \in Keys(merges) :
                 \E k \in (NumBytes + 1)..n :
                    /\ R[k][2] = merges[p]
                    /\ \E kl, kr \in 1..n : R[kl][2] = p[1] /\ R[kr][2] = p[2]
                    /\ \A kl, kr \in 1..n :
                         (R[kl][2] = p[1] /\ R[kr][2] = p[2]) =>
                            /\ R[k][1] = R[kl][1] \o R[kr][1]
                            /\ Len(R[k][1]) = Len(R[kl][1]) + Len(R[kr][1])

\* C7: for every learned token id t, encoding the byte sequence that
\* get_mergeable_ranks records for t, as one chunk, yields <<t>>.
C7_TokenSelfEncoding ==
    (pc = "returned" /\ returned = "ranks" /\ ~panicked) =>
        \A k \in (NumBytes + 1)..Len(mergeable_ranks) :
            encode_chunk(merges, mergeable_ranks[k][1]) = <<mergeable_ranks[k][2]>>

\* The number of places where the pair q stands inside one chunk of list.
Occurrences(q, list) ==
    Cardinality({jk \in UNION {{<<j, k>> : k \in 1..(Len(list[j]) - 1)}
                               : j \in 1..Len(list)}
                   : <<list[jk[1]][jk[2]], list[jk[1]][jk[2] + 1]>> = q})

\* The pairs that stand inside some chunk of list.
PairsWithin(list) == UNION {Windows(list[j]) : j \in 1..Len(list)}

\* The pairs (last symbol of a chunk, first symbol of the next chunk).
BoundaryPairs(list) ==
    {<<list[j][Len(list[j])], list[j + 1][1]>> : j \in 1..(Len(list) - 1)}

\* A step of train's loop that learns a merge.
TrainIteration == pc = "train" /\ Len(assigned') = Len(assigned) + 1

\* C8: no merge and no count crosses a chunk boundary: encode returns the
\* concatenation, in chunk order, of the encodings of the text's chunks taken
\* alone, and the counts of a training iteration are those of the pairs that
\* stand inside a chunk.
C8_ChunkIsolation ==
    [][ /\ (pc = "encode" /\ pc' = "returned") =>
            LET cs == find_iter(text)
            IN  tokens' = Flatten([k \in 1..Len(cs) |-> encode(merges, cs[k])])
        /\ TrainIteration =>
            /\ DOMAIN token_count' = PairsWithin(chunk_tokens_list)
            /\ \A q \in DOMAIN token_count' :
                  token_count'[q] = Occurrences(q, chunk_tokens_list)
      ]_vars

\* C8 witness: encode has returned for a text of several chunks, two
\* neighbouring chunks of which meet in a pair that the merge table knows.
C8_Witness ==
    /\ pc = "returned"
    /\ returned = "encode"
    /\ Len(find_iter(text)) >= 2
    /\ BoundaryPairs(symbol_streams(text)) \cap Keys(merges) # {}

\* C9: every training iteration selects a pair whose count, every adjacent
\* window of every chunk counted, is the maximum, and records it with the
\* next id of the call (256 plus the number of merges the call has learned).
\* Instance: on a fresh tokenizer, "aaabdaaabac" with vocab_size 258 learns
\* exactly (97,97) -> 256 and then a pair of maximum count of the merged
\* sequence with id 257, and encoding the text then gives at most 11 ids.
C9_SelectsMaxCount ==
    [][ /\ TrainIteration =>
            LET sel == assigned'[Len(assigned')]
            IN  /\ Occurrences(sel[1], chunk_tokens_list) >= 1
                /\ \A q \in PairsWithin(chunk_tokens_list) :
                      Occurrences(q, chunk_tokens_list)
                         <= Occurrences(sel[1], chunk_tokens_list)
                /\ sel[2] = FirstMergeId + Len(assigned)
                /\ sel[1] \in Keys(merges') /\ merges'[sel[1]] = sel[2]
        /\ (pc = "train" /\ pc' = "returned" /\ text = ExampleText
              /\ vocab_size = 258 /\ merges_at_call = EmptyMerges) =>
            LET merged == <<merge_pair(bytes(ExampleText), <<97, 97>>, 256)>>
            IN  /\ Len(assigned) = 2
                /\ assigned[1] = <<<<97, 97>>, 256>>
                /\ Occurrences(<<97, 97>>, <<bytes(ExampleText)>>) = 4
                /\ assigned[2][2] = 257
                /\ \A q \in PairsWithin(merged) :
                      Occurrences(q, merged) <= Occurrences(assigned[2][1], merged)
                /\ Keys(merges) = {assigned[1][1], assigned[2][1]}
                /\ Len(encode(merges, ExampleText)) <= 11
      ]_vars

\* C9 witness: the fresh tokenizer has been trained on "aaabdaaabac" with
\* vocab_size 258 and has learned two merges.
C9_Witness ==
    /\ AfterTrain
    /\ text = ExampleText
    /\ vocab_size = 258
    /\ merges_at_call = EmptyMerges
    /\ Len(assigned) = 2

\* C10: a train call with vocab_size <= 256 leaves the merge table as it
\* was and signals no error.
C10_NoOpTraining ==
    ((pc = "train" \/ AfterTrain) /\ vocab_size <= 256) =>
        /\ merges = merges_at_call
        /\ assigned = <<>>
        /\ ~panicked

\* C10 witness: a train call with vocab_size <= 256, on a text that has an
\* adjacent pair and a tokenizer that has merges, has returned.
C10_Witness ==
    /\ AfterTrain
    /\ vocab_size <= 256
    /\ merges # EmptyMerges
    /\ PairsWithin(symbol_streams(text)) # {}

\* The call in progress, or just returned, is a train call that began on
\* an empty merge table.
FreshTrain == merges_at_call = EmptyMerges

\* No chunk has an adjacent pair left.
AllShort(list) == \A j \in 1..Len(list) : Len(list[j]) <= 1

\* C11 as stated: a train call on a fresh tokenizer ends with fewer than
\* vocab_size-256 merges if and only if every chunk then has length <= 1,
\* and otherwise with exactly vocab_size-256 merges (stated for the calls
\* that ask for at least one merge).
C11_EarlyStopIff ==
    (AfterTrain /\ FreshTrain /\ vocab_size > FirstMergeId) =>
        LET n == Cardinality(Keys(merges))
        IN  /\ (n < vocab_size - FirstMergeId) <=> AllShort(chunk_tokens_list)
            /\ ~AllShort(chunk_tokens_list) => n = vocab_size - FirstMergeId

\* C11 amended: train terminates (in its loop some step is always possible:
\* the loop condition is false, or no pair is left, or max_by_key yields a
\* pair; and every step either returns or brings current_token one closer
\* to vocab_size); a call on a fresh tokenizer ends with at most
\* max(vocab_size-256, 0) merges, with fewer only if every chunk then has
\* length <= 1, and with exactly that many if some chunk is longer.
C11_TerminatesEarlyOnlyIfShort ==
    /\ [](pc = "train" =>
            \/ ~train_loop_cond
            \/ DOMAIN count_pairs(chunk_tokens_list) = {}
            \/ max_by_key(count_pairs(chunk_tokens_list)) # {})
    /\ [][ /\ pc = "train" =>
                \/ pc' = "returned"
                \/ /\ pc' = "train"
                   /\ current_token' = current_token + 1
                   /\ current_token' <= vocab_size
           /\ (pc = "train" /\ pc' = "returned" /\ FreshTrain) =>
                LET n == Cardinality(Keys(merges'))
                    target == IF vocab_size > FirstMergeId
                              THEN vocab_size - FirstMergeId ELSE 0
                IN  /\ n <= target
                    /\ n = Len(assigned')
                    /\ n < target => AllShort(chunk_tokens_list')
                    /\ ~AllShort(chunk_tokens_list') => n = target
         ]_vars

\* C11 witness: a train call on a fresh tokenizer has learned all the
\* vocab_size-256 merges it was asked for, and its last merge left no pair.
C11_Witness ==
    /\ AfterTrain
    /\ FreshTrain
    /\ vocab_size > FirstMergeId
    /\ Cardinality(Keys(merges)) = vocab_size - FirstMergeId
    /\ AllShort(chunk_tokens_list)

\* C12: encode leaves the merge table unchanged, and its result is a
\* function of the text and the merge table (the rank-ordered encoding of
\* the text's chunks), also when two adjacent pairs of a chunk have equal ids.
C12_EncodePure ==
    [][ /\ pc = "encode" => merges' = merges
        /\ (pc = "encode" /\ pc' = "returned") =>
              /\ merges' = merges_at_call
              /\ tokens' = encode(merges_at_call, text)
      ]_vars

\* C12 witness: encode has returned for a text one chunk of which holds two
\* different known pairs of equal id.
C12_Witness ==
    /\ pc = "returned"
    /\ returned = "encode"
    /\ \E k \in 1..Len(symbol_streams(text)) :
          \E p, q \in KnownPairs(merges, symbol_streams(text)[k]) :
             p # q /\ merges[p] = merges[q]

\* A call of get_mergeable_ranks or of encode has returned.
AfterRanks == pc = "returned" /\ returned = "ranks"
AfterEncode == pc = "returned" /\ returned = "encode"

\* C13: a freshly constructed tokenizer (no train call yet) has an empty
\* merge table, and its get_mergeable_ranks returns exactly 256 entries,
\* entry i being the single byte i with rank i.
C13_FreshRanks ==
    calls = 0 =>
        /\ merges = EmptyMerges
        /\ AfterRanks =>
              /\ ~panicked
              /\ Len(mergeable_ranks) = 256
              /\ \A b \in 0..255 : mergeable_ranks[b + 1] = <<<<b>>, b>>

\* C13 witness: get_mergeable_ranks has returned before any train call.
C13_Witness ==
    /\ AfterRanks
    /\ calls = 0
    /\ Len(mergeable_ranks) > 0

\* C14: encode of the empty text returns the empty token sequence and
\* raises no error, whatever the merge table.
C14_EncodeEmpty ==
    (AfterEncode /\ text = <<>>) => (tokens = <<>> /\ ~panicked)

\* C14 witness: encode("") has returned on a tokenizer that has merges.
C14_Witness ==
    /\ AfterEncode
    /\ text = <<>>
    /\ merges # EmptyMerges

\* The reference replacement, stated by positions instead of by a scan.
\* An occurrence of the pair starts at k when the pair stands at k, k+1.
OccursAt(toks, pair, k) ==
    k + 1 <= Len(toks) /\ toks[k] = pair[1] /\ toks[k + 1] = pair[2]

\* The number of consecutive copies of x that end just before position k.
RunBefore(toks, x, k) ==
    Cardinality({j \in 1..(k - 1) : \A m \in j..(k - 1) : toks[m] = x})

\* The occurrences a left-to-right non-overlapping scan replaces: all of
\* them when left # right (they cannot overlap), and inside a run of one
\* symbol those at an even distance from the start of the run.
Replaced(toks, pair) ==
    {k \in 1..Len(toks) :
        /\ OccursAt(toks, pair, k)
        /\ pair[1] = pair[2] => RunBefore(toks, pair[1], k) % 2 = 0}

\* The positions that give one output symbol each: every position that is
\* not the second symbol of a replaced occurrence.
Emitting(toks, pair) ==
    {k \in 1..Len(toks) : (k - 1) \notin Replaced(toks, pair)}

ReferenceMerge(toks, pair, new_id) ==
    LET E == Emitting(toks, pair)
        At(j) == CHOOSE k \in E : Cardinality({p \in E : p <= k}) = j
    IN  [j \in 1..Cardinality(E) |->
            IF At(j) \in Replaced(toks, pair) THEN new_id ELSE toks[At(j)]]

\* C15: merge_pair equals the left-to-right non-overlapping replacement
\* with every other symbol copied in order; a run of n copies of x under
\* (x, x) becomes n \div 2 copies of new_id and one x when n is odd; the
\* output is shorter than the input by the number of replacements; and when
\* new_id is neither left nor right the output holds no adjacent
\* (left, right).
C15_MergePairReference ==
    (pc = "returned" /\ returned = "merge_pair") =>
        LET n == Len(arg_tokens)
            x == arg_pair[1]
        IN  /\ tokens = ReferenceMerge(arg_tokens, arg_pair, arg_new_id)
            /\ (arg_pair[2] = x /\ \A k \in 1..n : arg_tokens[k] = x) =>
                  tokens = [j \in 1..((n \div 2) + (n % 2)) |->
                               IF j <= n \div 2 THEN arg_new_id ELSE x]
            /\ Len(tokens) = n - Cardinality(Replaced(arg_tokens, arg_pair))
            /\ arg_new_id \notin {arg_pair[1], arg_pair[2]} =>
                  \A k \in 1..Len(tokens) : ~OccursAt(tokens, arg_pair, k)

\* C15 witness: a run of three equal symbols followed by another symbol was
\* merged under the pair of that symbol with itself.
C15_Witness ==
    /\ pc = "returned" /\ returned = "merge_pair"
    /\ arg_pair = <<97, 97>>
    /\ arg_new_id = 257
    /\ arg_tokens = <<97, 97, 97, 98>>
    /\ tokens = <<257, 97, 98>>

\* C16: after one train call on a fresh tokenizer with text T, encode(T)
\* equals the concatenation, in chunk order, of the trainer's final
\* per-chunk symbol sequences, whichever pairs were chosen on ties.
C16_TrainEncodeConsistent ==
    (AfterTrain /\ FreshTrain) =>
        encode(merges, text) = Flatten(chunk_tokens_list)

\* C16 witness: a first train call that learned two merges over a text of
\* two chunks has returned, and encoding changes the text's bytes.
C16_Witness ==
    /\ AfterTrain /\ FreshTrain
    /\ Len(assigned) >= 2
    /\ Len(chunk_tokens_list) >= 2
    /\ encode(merges, text) # Flatten(symbol_streams(text))

\* C17: in every state reachable by train calls, every entry
\* (left, right) -> id of the merge table has left < id and right < id, and
\* every component that is >= 256 is the id of some entry of the table.
C17_BuildOrder ==
    (pc = "idle" \/ AfterTrain) =>
        \A p \in Keys(merges) :
            /\ p[1] < merges[p] /\ p[2] < merges[p]
            /\ \A c \in {p[1], p[2]} :
                  c >= FirstMergeId => \E q \in Keys(merges) : merges[q] = c

\* The first half of C17 alone: both components are below the entry's id.
C17_ComponentsBelowId ==
    \A p \in Keys(merges) : p[1] < merges[p] /\ p[2] < merges[p]

\* C18: get_mergeable_ranks never indexes outside the list built so far,
\* after any sequence of train calls: when the entry of a merge
\* (left, right) is built, left and right are smaller than the number of
\* entries already pushed, so the call completes and returns exactly
\* 256 + (number of merge-table entries) entries.
C18_RanksInRange ==
    /\ (AfterTrain \/ AfterRanks) =>
          \A order \in sorted_merges(merges) :
              \A k \in 1..Len(order) :
                  /\ order[k][1][1] < NumBytes + (k - 1)
                  /\ order[k][1][2] < NumBytes + (k - 1)
    /\ AfterRanks =>
          /\ ~panicked
          /\ Len(mergeable_ranks) = NumBytes + Cardinality(Keys(merges))

\* C18 witness: get_mergeable_ranks has returned for a table in which two
\* pairs hold the same id (ids restarted) and a merge has a learned token
\* as a component.
C18_Witness ==
    /\ AfterRanks
    /\ \E p, q \in Keys(merges) : p # q /\ merges[p] = merges[q]
    /\ \E p \in Keys(merges) : p[1] >= FirstMergeId \/ p[2] >= FirstMergeId

\* C19: within one train call no pair is selected twice: once an iteration
\* has merged the selected pair, no chunk holds that pair, neither right
\* after the iteration nor in a later iteration of the call, so every
\* iteration of a call on a fresh tokenizer adds a new key to the table.
C19_NoPairTwice ==
    (pc = "train" \/ AfterTrain) =>
        /\ \A k \in 1..Len(assigned) :
              assigned[k][1] \notin PairsWithin(chunk_tokens_list)
        /\ \A j, k \in 1..Len(assigned) :
              assigned[j][1] = assigned[k][1] => j = k
        /\ FreshTrain => Cardinality(Keys(merges)) = Len(assigned)

\* C19 witness: a call has learned two merges, the selected pair of the
\* first one stood in overlapping positions of the raw text, and the
\* chunks still hold a pair after the merges.
C19_Witness ==
    /\ pc = "train"
    /\ Len(assigned) = 2
    /\ \E k \in 1..Len(symbol_streams(text)) :
          \E n \in 1..(Len(symbol_streams(text)[k]) - 2) :
              /\ <<symbol_streams(text)[k][n], symbol_streams(text)[k][n + 1]>> = assigned[1][1]
              /\ <<symbol_streams(text)[k][n + 1], symbol_streams(text)[k][n + 2]>> = assigned[1][1]
    /\ PairsWithin(chunk_tokens_list) # {}

\* The byte sequence a list of ranks records for an id.
BytesOf(ranks, id) ==
    (CHOOSE e \in {ranks[k] : k \in 1..Len(ranks)} : e[2] = id)[1]

\* Each id of ids replaced by its recorded bytes, concatenated.
Decode(ranks, ids) == Flatten([k \in 1..Len(ids) |-> BytesOf(ranks, ids[k])])

\* C20: for a tokenizer trained by one train call from the empty state and
\* for every text, replacing each id of encode(text) by the bytes that
\* get_mergeable_ranks records for it and concatenating gives exactly the
\* bytes of the text's chunks in order.
C20_LosslessDecode ==
    (AfterRanks /\ calls <= 1) =>
        /\ ~panicked
        /\ \A t \in Texts :
              Decode(mergeable_ranks, encode(merges, t)) = Flatten(symbol_streams(t))

\* C20 witness: ranks were returned after one train call that learned a
\* merge of a learned token, and some text is encoded with that token.
C20_Witness ==
    /\ AfterRanks
    /\ calls = 1
    /\ \E p \in Keys(merges) : p[1] >= FirstMergeId \/ p[2] >= FirstMergeId
    /\ \E t \in Texts : \E k \in 1..Len(encode(merges, t)) :
          encode(merges, t)[k] > FirstMergeId

====
